---------------------------- MODULE Spec2Model ----------------------------
(***************************************************************************)
(* RelayPendingQueryTracker and subtractRelayQuery.                        *)
(*                                                                         *)
(* The tracker keeps a registry of pending (in-flight) queries and         *)
(* subtracts them from every newly enqueued query.  Each enqueued query is *)
(* a PendingFetch; its promise callbacks are the actions of this model.    *)
(***************************************************************************)
EXTENDS Integers, Sequences, FiniteSets, TLC

(***************************************************************************)
(* Bounds of the model.                                                    *)
(***************************************************************************)
\* number of PendingFetch objects created by add()
MaxFetch == 3
\* number of resetPending() calls
MaxReset == 1
\* number of children of a node of a query tree
MaxWidth == 2
\* largest count a range field asks for with first: or last:
MaxCount == 2
\* number of PendingFetch objects when the collaborators are fair
LiveMaxFetch == 2

(***************************************************************************)
(* RelayQuery nodes.  Every node is a record of the same shape; Null is    *)
(* JavaScript's null.                                                      *)
(***************************************************************************)
Null == [kind |-> "Null", schemaName |-> "", applicationName |-> "",
         calls |-> <<>>, requisite |-> FALSE, refQueryDependency |-> FALSE,
         scalar |-> FALSE, connection |-> FALSE, children |-> <<>>]

Call(n, v) == [name |-> n, value |-> v]

Scalar(n) == [kind |-> "Field", schemaName |-> n, applicationName |-> n,
              calls |-> <<>>, requisite |-> FALSE, refQueryDependency |-> FALSE,
              scalar |-> TRUE, connection |-> FALSE, children |-> <<>>]

\* a generated bookkeeping field such as `id`
Requisite(n) == [Scalar(n) EXCEPT !.requisite = TRUE]

\* a requisite field polled under an alias (ref query dependency)
RefDependency(n, alias) ==
    [Scalar(n) EXCEPT !.requisite = TRUE, !.refQueryDependency = TRUE,
                      !.applicationName = alias]

Plain(n, kids) == [kind |-> "Field", schemaName |-> n, applicationName |-> n,
                   calls |-> <<>>, requisite |-> FALSE,
                   refQueryDependency |-> FALSE,
                   scalar |-> FALSE, connection |-> FALSE, children |-> kids]

Connection(n, args, kids) ==
    [Plain(n, kids) EXCEPT !.calls = args, !.connection = TRUE]

Fragment(kids) == [kind |-> "Fragment", schemaName |-> "", applicationName |-> "",
                   calls |-> <<>>, requisite |-> FALSE,
                   refQueryDependency |-> FALSE,
                   scalar |-> FALSE, connection |-> FALSE, children |-> kids]

\* a root call `fieldName(identifyingArg) { kids }`
Root(n, arg, kids) == [kind |-> "Root", schemaName |-> n, applicationName |-> n,
                       calls |-> <<Call("id", arg)>>, requisite |-> FALSE,
                       refQueryDependency |-> FALSE,
                       scalar |-> FALSE, connection |-> FALSE, children |-> kids]

getIdentifyingArg(root) == root.calls

RECURSIVE SelectNonNull(_)
SelectNonNull(s) ==
    IF s = <<>> THEN <<>>
    ELSE IF Head(s) = Null THEN SelectNonNull(Tail(s))
         ELSE <<Head(s)>> \o SelectNonNull(Tail(s))

\* RelayQuery.Node.clone(children): drops null children; null when none is
\* left; the node itself when every child is the one it already has.
clone(node, kids) ==
    IF node.scalar THEN node
    ELSE LET next == SelectNonNull(kids) IN
         IF next = <<>> THEN Null
         ELSE IF next = node.children THEN node
         ELSE [node EXCEPT !.children = next]

\* the storage key of a field: schema name and argument values
getStorageKey(field) == <<field.schemaName, field.calls>>

RECURSIVE LastFieldWithKey(_, _)
LastFieldWithKey(kids, key) ==
    IF kids = <<>> THEN Null
    ELSE LET k == kids[Len(kids)] IN
         IF k.kind = "Field" /\ getStorageKey(k) = key THEN k
         ELSE LastFieldWithKey(SubSeq(kids, 1, Len(kids) - 1), key)

\* RelayQuery.Node.getField(field): the direct child field with the same
\* storage key, if any.
getField(node, field) == LastFieldWithKey(node.children, getStorageKey(field))

(***************************************************************************)
(* subtractRelayQuery.js                                                   *)
(***************************************************************************)
RECURSIVE isEmptyField(_)
isEmptyField(node) ==
    IF node.kind = "Field" /\ node.scalar
    THEN /\ node.requisite
         /\ ~node.refQueryDependency
         /\ node.applicationName = node.schemaName
    ELSE \A i \in DOMAIN node.children : isEmptyField(node.children[i])

canSubtractRoot(min, sub) ==
    /\ min.schemaName = sub.schemaName
    /\ getIdentifyingArg(min) = getIdentifyingArg(sub)

\* fault: first and last must be equal, like every other argument
canSubtractFieldExact(minField, subField) ==
    /\ minField.schemaName = subField.schemaName
    /\ minField.calls = subField.calls

canSubtractField(minField, subField) ==
    /\ minField.schemaName = subField.schemaName
    /\ Len(minField.calls) = Len(subField.calls)
    /\ \A ii \in DOMAIN minField.calls :
          LET minArg == minField.calls[ii]
              subArg == subField.calls[ii]
          IN  /\ minArg.name = subArg.name
              /\ IF minArg.name \in {"first", "last"}
                 THEN minArg.value <= subArg.value
                 ELSE minArg.value = subArg.value

RECURSIVE FilterMatching(_, _)
FilterMatching(node, kids) ==
    IF kids = <<>> THEN <<>>
    ELSE IF Head(kids).kind = "Field" /\ canSubtractField(node, Head(kids))
         THEN <<Head(kids)>> \o FilterMatching(node, Tail(kids))
         ELSE FilterMatching(node, Tail(kids))

getMatchingRangeFields(node, subtrahend) ==
    FilterMatching(node, subtrahend.children)

\* The visitor's methods return the diff; `state.isEmpty` is returned with it.
Result(d, e) == [diff |-> d, isEmpty |-> e]

RECURSIVE visit(_, _, _)
RECURSIVE _subtractChildren(_, _, _)
RECURSIVE MapChildren(_, _)
RECURSIVE SubtractRanges(_, _, _)

\* children.map(child => visit(child, {isEmpty: true, subtrahend}))
MapChildren(kids, subtrahend) ==
    IF kids = <<>> THEN <<>>
    ELSE <<visit(Head(kids), subtrahend, TRUE)>>
            \o MapChildren(Tail(kids), subtrahend)

_subtractChildren(node, subtrahend, isEmpty) ==
    LET rs == MapChildren(node.children, subtrahend) IN
    Result(clone(node, [i \in DOMAIN rs |-> rs[i].diff]),
           isEmpty /\ \A i \in DOMAIN rs : rs[i].isEmpty)

\* fault: a scalar is never covered
_subtractScalarKeeping(node, subtrahend, isEmpty) ==
    Result(node, isEmptyField(node))

_subtractScalar(node, subtrahend, isEmpty) ==
    LET subField == getField(subtrahend, node) IN
    IF subField # Null /\ ~node.requisite
    THEN Result(Null, isEmpty)
    ELSE Result(node, isEmptyField(node))

\* the loop of _subtractConnection over the matching ranges
SubtractRanges(acc, ranges, ii) ==
    IF ii > Len(ranges) THEN acc
    ELSE LET r == _subtractChildren(acc.diff, ranges[ii], TRUE) IN
         IF r.diff = Null THEN r
         ELSE SubtractRanges(r, ranges, ii + 1)

_subtractConnection(node, subtrahend, isEmpty) ==
    LET subtrahendRanges == getMatchingRangeFields(node, subtrahend) IN
    IF subtrahendRanges = <<>>
    THEN Result(node, isEmptyField(node))
    ELSE SubtractRanges(Result(node, isEmpty), subtrahendRanges, 1)

_subtractField(node, subtrahend, isEmpty) ==
    LET subField == getField(subtrahend, node) IN
    IF subField = Null
    THEN Result(node, isEmptyField(node))
    ELSE _subtractChildren(node, subField, TRUE)

visitRoot(node, subtrahend, isEmpty) ==
    IF ~canSubtractRoot(node, subtrahend)
    THEN Result(node, FALSE)
    ELSE _subtractChildren(node, subtrahend, isEmpty)

visitFragment(node, subtrahend, isEmpty) ==
    _subtractChildren(node, subtrahend, isEmpty)

\* fault: a requisite diff is dropped like any other
visitFieldReturnNonEmptyOnly(r) ==
    IF r.diff # Null /\ ~r.isEmpty THEN r ELSE Result(Null, r.isEmpty)

\* the end of visitField: the diff is kept when it is requisite or not empty
visitFieldReturn(r) ==
    IF r.diff # Null /\ (r.diff.requisite \/ ~r.isEmpty)
    THEN r
    ELSE Result(Null, r.isEmpty)

visitField(node, subtrahend, isEmpty) ==
    visitFieldReturn(
        IF node.scalar THEN _subtractScalar(node, subtrahend, isEmpty)
        ELSE IF node.connection
             THEN _subtractConnection(node, subtrahend, isEmpty)
             ELSE _subtractField(node, subtrahend, isEmpty))

visit(node, subtrahend, isEmpty) ==
    IF node.kind = "Root" THEN visitRoot(node, subtrahend, isEmpty)
    ELSE IF node.kind = "Fragment" THEN visitFragment(node, subtrahend, isEmpty)
    ELSE visitField(node, subtrahend, isEmpty)

subtractRelayQuery(minuend, subtrahend) ==
    LET r == visit(minuend, subtrahend, TRUE) IN
    IF ~r.isEmpty THEN r.diff ELSE Null

(***************************************************************************)
(* The queries callers enqueue.                                            *)
(***************************************************************************)
\* user(1) { name, id }
QueryNameId == Root("user", 1, <<Scalar("name"), Requisite("id")>>)
\* user(1) { name, email, id }
QueryNameEmailId ==
    Root("user", 1, <<Scalar("name"), Scalar("email"), Requisite("id")>>)
\* user(1) { email }
QueryEmail == Root("user", 1, <<Scalar("email")>>)
\* user(2) { name }
QueryOther == Root("user", 2, <<Scalar("name")>>)
Params(q, mode, index) == [query |-> q, fetchMode |-> mode, forceIndex |-> index]

\* The {query, fetchMode, forceIndex} parameters callers pass to add(); the
\* fetch modes are CLIENT and PRELOAD.
Enqueued ==
    {Params(QueryNameId, "CLIENT", 0),
     Params(QueryNameEmailId, "CLIENT", 1),
     Params(QueryEmail, "CLIENT", 0),
     Params(QueryOther, "CLIENT", 1),
     Params(QueryNameId, "PRELOAD", 1)}

\* typeof result.response
Responses == {"object", "undefined"}

(***************************************************************************)
(* State.                                                                  *)
(***************************************************************************)
VARIABLES
    fetches,            \* the PendingFetch objects, in creation order
    pendingFetchMaps,   \* every _pendingFetchMap object; the tracker's is the last
    preloadQueryMap,    \* PromiseMap: query ID -> state of its promise
    taskQueue,          \* storeData.getTaskQueue(): tasks not yet run
    networkCalls,       \* calls of getNetworkLayer().fetchRelayQuery, in order
    storeWrites,        \* calls of storeData.handleQueryPayload, in order
    resetLog,           \* history: how many fetches each resetPending() found
    successLog,         \* history: the fetches whose promise resolved, in
                        \* that order, and whether their future was
                        \* rejected by then
    minuend,            \* subtractRelayQuery called on its own: first argument
    subtrahend,         \* second argument
    difference          \* <<>> before the call, then << its return value >>

\* the state of a tracker and of its fetches
trackerVars == <<fetches, pendingFetchMaps, preloadQueryMap, taskQueue,
                 networkCalls, storeWrites, resetLog, successLog>>

\* the arguments and the result of a call of subtractRelayQuery
subtractVars == <<minuend, subtrahend, difference>>

vars == <<fetches, pendingFetchMaps, preloadQueryMap, taskQueue,
          networkCalls, storeWrites, resetLog, successLog,
          minuend, subtrahend, difference>>

Fetches == DOMAIN fetches

NoError == [kind |-> "none", of |-> 0]
Error(k, f) == [kind |-> k, of |-> f]

\* fbjs Deferred
Deferred == [state |-> "pending", reason |-> NoError]
DeferredIsSettled(d) == d.state # "pending"

\* RelayQuery.Root.getID(): every enqueued query is an object of its own
getID(query) == query.id

\* Object.keys(map).length
hasItems(map) == DOMAIN map # {}

\* delete map[key] of an object used as a map
WithoutKey(map, key) == [k \in DOMAIN map \ {key} |-> map[k]]

\* the tracker's own _pendingFetchMap
trackerMap == Len(pendingFetchMaps)

hasPendingQueries == hasItems(pendingFetchMaps[trackerMap])

\* delete map[key]
DeleteKey(map, key) == SelectSeq(map, LAMBDA e : e.key # key)

\* map[key] = {fetch, query}
PutKey(map, key, f, q) ==
    IF \E i \in DOMAIN map : map[i].key = key
    THEN [i \in DOMAIN map |->
             IF map[i].key = key THEN [key |-> key, fetch |-> f, query |-> q]
             ELSE map[i]]
    ELSE Append(map, [key |-> key, fetch |-> f, query |-> q])

(***************************************************************************)
(* PendingFetch: settlement.                                               *)
(***************************************************************************)
\* fault: settled without waiting for the pending dependencies
_isSettledWithoutDependencies(pf) ==
    Len(pf.errors) > 0 \/ pf.resolvedSubtractedQuery

_isSettled(pf) ==
    \/ Len(pf.errors) > 0
    \/ pf.resolvedSubtractedQuery /\ ~hasItems(pf.pendingDependencyMap)

\* fault: recorded errors do not reject the deferred
_updateResolvedDeferredIgnoringErrors(pf) ==
    IF _isSettled(pf) /\ ~DeferredIsSettled(pf.resolvedDeferred)
    THEN [pf EXCEPT !.resolvedDeferred =
                       [state |-> "resolved", reason |-> NoError]]
    ELSE pf

_updateResolvedDeferred(pf) ==
    IF _isSettled(pf) /\ ~DeferredIsSettled(pf.resolvedDeferred)
    THEN IF Len(pf.errors) > 0
         THEN [pf EXCEPT !.resolvedDeferred =
                            [state |-> "rejected", reason |-> pf.errors[1]]]
         ELSE [pf EXCEPT !.resolvedDeferred =
                            [state |-> "resolved", reason |-> NoError]]
    ELSE pf

\* fault: the resolved dependency stays in the dependency map
_markDependencyAsResolvedKeepingEntry(pf, dependencyQueryID) ==
    _updateResolvedDeferred(pf)

_markDependencyAsResolved(pf, dependencyQueryID) ==
    _updateResolvedDeferred(
        [pf EXCEPT !.pendingDependencyMap = WithoutKey(@, dependencyQueryID)])

\* fault: the error is recorded, the deferred is not updated
_markDependencyAsRejectedNoUpdate(pf, dependencyQueryID, error) ==
    [pf EXCEPT !.pendingDependencyMap = WithoutKey(@, dependencyQueryID),
               !.errors = Append(@, error)]

\* fault: a rejected dependency is treated as a resolved one
_markDependencyAsRejectedDropped(pf, dependencyQueryID, error) ==
    _markDependencyAsResolved(pf, dependencyQueryID)

\* fault: a failed dependency aborts the dependent's own fetch
_markDependencyAsRejectedAborting(pf, dependencyQueryID, error) ==
    _updateResolvedDeferred(
        [pf EXCEPT !.pendingDependencyMap = WithoutKey(@, dependencyQueryID),
                   !.errors = Append(@, error),
                   !.fetchSubtractedQueryPromise =
                       IF @ = "pending" THEN "none" ELSE @])

_markDependencyAsRejected(pf, dependencyQueryID, error) ==
    _updateResolvedDeferred(
        [pf EXCEPT !.pendingDependencyMap = WithoutKey(@, dependencyQueryID),
                   !.errors = Append(@, error)])

\* fault: the pending dependencies are not looked at
isResolvableAlone(fs, f) == fs[f].fetchedSubtractedQuery

\* fs[f].isResolvable(), fs being the PendingFetch objects
isResolvable(fs, f) ==
    IF fs[f].fetchedSubtractedQuery
    THEN \A id \in DOMAIN fs[f].pendingDependencyMap :
            fs[fs[f].pendingDependencyMap[id]].fetchedSubtractedQuery
    ELSE FALSE

\* fault: the dependents are not told that the remainder resolved
NotifyResolvedNobody(fs, dependents, queryID) == fs

\* this._dependents.forEach(dependent => dependent._markDependencyAsResolved(id))
RECURSIVE NotifyResolved(_, _, _)
NotifyResolved(fs, dependents, queryID) ==
    IF dependents = <<>> THEN fs
    ELSE NotifyResolved(
             [fs EXCEPT ![Head(dependents)] =
                           _markDependencyAsResolved(@, queryID)],
             Tail(dependents), queryID)

RECURSIVE NotifyRejected(_, _, _, _)
NotifyRejected(fs, dependents, queryID, error) ==
    IF dependents = <<>> THEN fs
    ELSE NotifyRejected(
             [fs EXCEPT ![Head(dependents)] =
                           _markDependencyAsRejected(@, queryID, error)],
             Tail(dependents), queryID, error)

\* fault: a fetch the tracker has forgotten is not marked as resolved
_markSubtractedQueryAsResolvedIfTracked(fs, maps, f) ==
    IF fs[f].pendingFetchMap # Len(maps)
    THEN [fetches |-> fs, maps |-> maps]
    ELSE LET queryID == getID(fs[f].query)
             fs1 == [fs EXCEPT ![f] = _updateResolvedDeferred(
                                  [@ EXCEPT !.resolvedSubtractedQuery = TRUE])]
         IN  [fetches |-> NotifyResolved(fs1, fs1[f].dependents, queryID),
              maps |-> [maps EXCEPT ![fs[f].pendingFetchMap] =
                                       DeleteKey(@, queryID)]]

\* the heap after f._markSubtractedQueryAsResolved()
_markSubtractedQueryAsResolved(fs, maps, f) ==
    LET queryID == getID(fs[f].query)
        fs1 == [fs EXCEPT ![f] = _updateResolvedDeferred(
                                    [@ EXCEPT !.resolvedSubtractedQuery = TRUE])]
    IN  [fetches |-> NotifyResolved(fs1, fs1[f].dependents, queryID),
         maps |-> [maps EXCEPT ![fs[f].pendingFetchMap] = DeleteKey(@, queryID)]]

\* fault: a failed fetch stays in the registry
_markAsRejectedKeepingEntry(fs, maps, f, error) ==
    LET queryID == getID(fs[f].query)
        fs1 == [fs EXCEPT ![f] = _updateResolvedDeferred(
                                    [@ EXCEPT !.errors = Append(@, error)])]
    IN  [fetches |-> NotifyRejected(fs1, fs1[f].dependents, queryID, error),
         maps |-> maps]

\* the heap after f._markAsRejected(error)
_markAsRejected(fs, maps, f, error) ==
    LET queryID == getID(fs[f].query)
        fs1 == [fs EXCEPT ![f] = _updateResolvedDeferred(
                                    [@ EXCEPT !.errors = Append(@, error)])]
    IN  [fetches |-> NotifyRejected(fs1, fs1[f].dependents, queryID, error),
         maps |-> [maps EXCEPT ![fs[f].pendingFetchMap] = DeleteKey(@, queryID)]]

(***************************************************************************)
(* PendingFetch: construction.                                             *)
(***************************************************************************)
\* containsRelayQueryRootCall(thisRoot, thatRoot): same root field and
\* identifying argument
containsRelayQueryRootCall(thisRoot, thatRoot) ==
    /\ thisRoot.schemaName = thatRoot.schemaName
    /\ getIdentifyingArg(thisRoot) = getIdentifyingArg(thatRoot)

\* fault: the pending queries are not subtracted
_subtractPendingNothing(query, map) == [query |-> query, dependencies |-> <<>>]

\* everyObject(this._pendingFetchMap, ...): the remaining query and the
\* pending fetches added as dependencies, in the order they were added
RECURSIVE _subtractPending(_, _)
_subtractPending(query, map) ==
    IF map = <<>> \/ query = Null
    THEN [query |-> query, dependencies |-> <<>>]
    ELSE LET pending == Head(map)
             subtractedQuery ==
                 IF containsRelayQueryRootCall(pending.query, query)
                 THEN subtractRelayQuery(query, pending.query)
                 ELSE query
             rest == _subtractPending(subtractedQuery, Tail(map))
         IN  IF subtractedQuery # query
             THEN [rest EXCEPT !.dependencies = <<pending.fetch>> \o @]
             ELSE rest

\* fault: the dependency does not learn of its dependent
_addDependentNone(fs, dependencies, f) == fs

\* pendingFetch._addDependent(this) for every dependency
RECURSIVE _addDependent(_, _, _)
_addDependent(fs, dependencies, f) ==
    IF dependencies = <<>> THEN fs
    ELSE _addDependent(
             [fs EXCEPT ![Head(dependencies)].dependents = Append(@, f)],
             Tail(dependencies), f)

\* fault: the dependency is not recorded on the new fetch
_addPendingDependencyNone(fs, dependencies) == <<>>

\* _pendingDependencyMap after _addPendingDependency of each dependency
_addPendingDependency(fs, dependencies) ==
    LET ids == {getID(fs[dependencies[i]].query) : i \in DOMAIN dependencies}
    IN  [queryID \in ids |->
            CHOOSE pendingFetch \in DOMAIN fs :
                /\ getID(fs[pendingFetch].query) = queryID
                /\ \E i \in DOMAIN dependencies : dependencies[i] = pendingFetch]

\* new PendingFetch({fetchMode, forceIndex, query}, ...)
PendingFetch(node, fetchMode, forceIndex) ==
    LET f == Len(fetches) + 1
        query == [id |-> f, node |-> node]
        sub == IF fetchMode = "PRELOAD"
               THEN [query |-> node, dependencies |-> <<>>]
               ELSE _subtractPending(node, pendingFetchMaps[trackerMap])
        subtractedQuery == sub.query
        this == [query |-> query,
                 fetchMode |-> fetchMode,
                 forceIndex |-> forceIndex,
                 dependents |-> <<>>,
                 pendingDependencyMap |->
                     _addPendingDependency(fetches, sub.dependencies),
                 pendingFetchMap |-> trackerMap,
                 subtractedQuery |-> subtractedQuery,
                 fetchSubtractedQueryPromise |->
                     IF subtractedQuery # Null THEN "pending" ELSE "none",
                 taskPromise |-> "none",
                 taskError |-> NoError,
                 fetchedSubtractedQuery |-> (subtractedQuery = Null),
                 resolvedSubtractedQuery |-> FALSE,
                 errors |-> <<>>,
                 resolvedDeferred |-> Deferred]
        fs == Append(_addDependent(fetches, sub.dependencies, f), this)
    IN  /\ networkCalls' =
              IF fetchMode # "PRELOAD" /\ subtractedQuery # Null
              THEN Append(networkCalls, [fetch |-> f, query |-> subtractedQuery])
              ELSE networkCalls
        /\ IF subtractedQuery # Null
           THEN /\ fetches' = fs
                /\ pendingFetchMaps' =
                      [pendingFetchMaps EXCEPT ![trackerMap] =
                          PutKey(@, getID(query), f, subtractedQuery)]
           ELSE LET r == _markSubtractedQueryAsResolved(fs, pendingFetchMaps, f)
                IN  /\ fetches' = r.fetches
                    /\ pendingFetchMaps' = r.maps

(***************************************************************************)
(* Actions.                                                                *)
(***************************************************************************)
Init ==
    /\ fetches = <<>>
    /\ pendingFetchMaps = << <<>> >>
    /\ preloadQueryMap = [id \in 1..MaxFetch |-> [state |-> "pending",
                                                   response |-> "undefined"]]
    /\ taskQueue = <<>>
    /\ networkCalls = <<>>
    /\ storeWrites = <<>>
    /\ resetLog = <<>>
    /\ successLog = <<>>
    /\ minuend = Null
    /\ subtrahend = Null
    /\ difference = <<>>

\* RelayPendingQueryTracker.add(params)
add(params) ==
    /\ Len(fetches) < MaxFetch
    /\ PendingFetch(params.query, params.fetchMode, params.forceIndex)
    /\ UNCHANGED <<subtractVars, preloadQueryMap, taskQueue, storeWrites, resetLog,
                   successLog>>

\* fault: the registry is not cleared
resetPendingKeepingEntries ==
    /\ Len(resetLog) < MaxReset
    /\ resetLog' = Append(resetLog, Len(fetches))
    /\ UNCHANGED <<subtractVars, fetches, pendingFetchMaps, preloadQueryMap, taskQueue,
                   networkCalls, storeWrites, successLog>>

\* RelayPendingQueryTracker.resetPending()
resetPending ==
    /\ Len(pendingFetchMaps) <= MaxReset
    /\ pendingFetchMaps' = Append(pendingFetchMaps, <<>>)
    /\ resetLog' = Append(resetLog, Len(fetches))
    /\ UNCHANGED <<subtractVars, fetches, preloadQueryMap, taskQueue, networkCalls,
                   storeWrites, successLog>>

\* The preloader settles the key of a query after it was enqueued in PRELOAD
\* mode; PromiseMap settles a key once.
PreloadKeyInUse(queryID) ==
    queryID \in Fetches /\ fetches[queryID].fetchMode = "PRELOAD"

\* RelayPendingQueryTracker.resolvePreloadQuery(queryID, result)
resolvePreloadQuery(queryID, response) ==
    /\ preloadQueryMap[queryID].state = "pending"
    /\ PreloadKeyInUse(queryID)
    /\ preloadQueryMap' =
          [preloadQueryMap EXCEPT ![queryID] =
              [state |-> "resolved", response |-> response]]
    /\ UNCHANGED <<subtractVars, fetches, pendingFetchMaps, taskQueue, networkCalls,
                   storeWrites, resetLog, successLog>>

\* RelayPendingQueryTracker.rejectPreloadQuery(queryID, error)
rejectPreloadQuery(queryID) ==
    /\ preloadQueryMap[queryID].state = "pending"
    /\ PreloadKeyInUse(queryID)
    /\ preloadQueryMap' =
          [preloadQueryMap EXCEPT ![queryID] =
              [state |-> "rejected", response |-> "undefined"]]
    /\ UNCHANGED <<subtractVars, fetches, pendingFetchMaps, taskQueue, networkCalls,
                   storeWrites, resetLog, successLog>>

\* fault: a preload query is answered like a network fetch
PromiseSettlesAnyMode(f, state, response) ==
    fetches[f].fetchSubtractedQueryPromise = "pending"

\* whether _fetchSubtractedQueryPromise of f can settle as `state`
PromiseSettles(f, state, response) ==
    /\ fetches[f].fetchSubtractedQueryPromise = "pending"
    /\ fetches[f].fetchMode = "PRELOAD" =>
          /\ preloadQueryMap[getID(fetches[f].query)].state = state
          /\ preloadQueryMap[getID(fetches[f].query)].response = response

\* PendingFetch._handleSubtractedQuerySuccess(subtractedQuery, result)
_handleSubtractedQuerySuccess(f, response) ==
    /\ PromiseSettles(f, "resolved", response)
    /\ fetches' = [fetches EXCEPT ![f].fetchSubtractedQueryPromise = "done",
                                  ![f].fetchedSubtractedQuery = TRUE,
                                  ![f].taskPromise = "pending"]
    /\ taskQueue' = Append(taskQueue, [fetch |-> f, response |-> response])
    /\ successLog' =
          Append(successLog,
                 [fetch |-> f,
                  rejected |-> fetches[f].resolvedDeferred.state = "rejected"])
    /\ UNCHANGED <<subtractVars, pendingFetchMaps, preloadQueryMap, networkCalls,
                   storeWrites, resetLog>>

\* PendingFetch._handleSubtractedQueryFailure(subtractedQuery, error)
_handleSubtractedQueryFailure(f) ==
    /\ PromiseSettles(f, "rejected", "undefined")
    /\ LET kind == IF fetches[f].fetchMode = "PRELOAD" THEN "preload"
                   ELSE "network"
           r == _markAsRejected(
                    [fetches EXCEPT ![f].fetchSubtractedQueryPromise = "done"],
                    pendingFetchMaps, f, Error(kind, f))
       IN  /\ fetches' = r.fetches
           /\ pendingFetchMaps' = r.maps
    /\ UNCHANGED <<subtractVars, preloadQueryMap, taskQueue, networkCalls, storeWrites,
                   resetLog, successLog>>

\* fault: the payload is handed to the store whatever the response is
runTaskWritingAnyResponse(throws) ==
    /\ taskQueue # <<>>
    /\ LET task == Head(taskQueue)
           f == task.fetch
       IN  /\ storeWrites' =
                 Append(storeWrites,
                        [fetch |-> f,
                         query |-> fetches[f].subtractedQuery,
                         forceIndex |-> fetches[f].forceIndex])
           /\ fetches' =
                 IF task.response # "object"
                 THEN [fetches EXCEPT ![f].taskPromise = "rejected",
                                      ![f].taskError = Error("shape", f)]
                 ELSE IF throws
                 THEN [fetches EXCEPT ![f].taskPromise = "rejected",
                                      ![f].taskError = Error("apply", f)]
                 ELSE [fetches EXCEPT ![f].taskPromise = "resolved"]
    /\ taskQueue' = Tail(taskQueue)
    /\ UNCHANGED <<subtractVars, pendingFetchMaps, preloadQueryMap,
                   networkCalls, resetLog, successLog>>

\* fault: the task queue runs its last task first
runTaskLast(throws) ==
    /\ taskQueue # <<>>
    /\ LET task == taskQueue[Len(taskQueue)]
           f == task.fetch
       IN  IF task.response # "object"
           THEN /\ fetches' = [fetches EXCEPT ![f].taskPromise = "rejected",
                                              ![f].taskError = Error("shape", f)]
                /\ UNCHANGED storeWrites
           ELSE /\ storeWrites' =
                      Append(storeWrites,
                             [fetch |-> f,
                              query |-> fetches[f].subtractedQuery,
                              forceIndex |-> fetches[f].forceIndex])
                /\ fetches' =
                      IF throws
                      THEN [fetches EXCEPT ![f].taskPromise = "rejected",
                                           ![f].taskError = Error("apply", f)]
                      ELSE [fetches EXCEPT ![f].taskPromise = "resolved"]
    /\ taskQueue' = SubSeq(taskQueue, 1, Len(taskQueue) - 1)
    /\ UNCHANGED <<subtractVars, pendingFetchMaps, preloadQueryMap,
                   networkCalls, resetLog, successLog>>

\* The task queue runs its first task: the function enqueued by
\* _handleSubtractedQuerySuccess.  handleQueryPayload may throw.
runTask(throws) ==
    /\ taskQueue # <<>>
    /\ LET task == Head(taskQueue)
           f == task.fetch
       IN  IF task.response # "object"
           THEN /\ fetches' = [fetches EXCEPT ![f].taskPromise = "rejected",
                                              ![f].taskError = Error("shape", f)]
                /\ UNCHANGED storeWrites
           ELSE /\ storeWrites' =
                      Append(storeWrites,
                             [fetch |-> f,
                              query |-> fetches[f].subtractedQuery,
                              forceIndex |-> fetches[f].forceIndex])
                /\ fetches' =
                      IF throws
                      THEN [fetches EXCEPT ![f].taskPromise = "rejected",
                                           ![f].taskError = Error("apply", f)]
                      ELSE [fetches EXCEPT ![f].taskPromise = "resolved"]
    /\ taskQueue' = Tail(taskQueue)
    /\ UNCHANGED <<subtractVars, pendingFetchMaps, preloadQueryMap, networkCalls, resetLog,
                   successLog>>

\* .done(this._markSubtractedQueryAsResolved.bind(this), ...)
taskResolved(f) ==
    /\ fetches[f].taskPromise = "resolved"
    /\ LET r == _markSubtractedQueryAsResolved(
                    [fetches EXCEPT ![f].taskPromise = "done"],
                    pendingFetchMaps, f)
       IN  /\ fetches' = r.fetches
           /\ pendingFetchMaps' = r.maps
    /\ UNCHANGED <<subtractVars, preloadQueryMap, taskQueue, networkCalls, storeWrites,
                   resetLog, successLog>>

\* .done(..., this._markAsRejected.bind(this))
taskRejected(f) ==
    /\ fetches[f].taskPromise = "rejected"
    /\ LET r == _markAsRejected(
                    [fetches EXCEPT ![f].taskPromise = "done"],
                    pendingFetchMaps, f, fetches[f].taskError)
       IN  /\ fetches' = r.fetches
           /\ pendingFetchMaps' = r.maps
    /\ UNCHANGED <<subtractVars, preloadQueryMap, taskQueue, networkCalls, storeWrites,
                   resetLog, successLog>>

Next ==
    \/ \E params \in Enqueued : add(params)
    \/ resetPending
    \/ \E queryID \in 1..MaxFetch, response \in Responses :
          resolvePreloadQuery(queryID, response)
    \/ \E queryID \in 1..MaxFetch : rejectPreloadQuery(queryID)
    \/ \E f \in Fetches, response \in Responses :
          _handleSubtractedQuerySuccess(f, response)
    \/ \E f \in Fetches : _handleSubtractedQueryFailure(f)
    \/ \E throws \in BOOLEAN : runTask(throws)
    \/ \E f \in Fetches : taskResolved(f)
    \/ \E f \in Fetches : taskRejected(f)

Spec == Init /\ [][Next]_vars

(***************************************************************************)
(* The tracker with collaborators that answer: every fetch promise and     *)
(* every preload key settles, the task queue runs every task and calls     *)
(* back.                                                                   *)
(***************************************************************************)
\* the parameters callers pass to add()
LiveEnqueued ==
    {Params(QueryNameId, "CLIENT", 0),
     Params(QueryNameEmailId, "CLIENT", 1),
     Params(QueryNameId, "PRELOAD", 1)}

\* the network layer answers a fetch
NetworkSettles ==
    \E f \in Fetches :
        \/ \E response \in Responses : _handleSubtractedQuerySuccess(f, response)
        \/ _handleSubtractedQueryFailure(f)

\* the preloader settles a key
PreloadSettles ==
    \E queryID \in 1..MaxFetch :
        \/ \E response \in Responses : resolvePreloadQuery(queryID, response)
        \/ rejectPreloadQuery(queryID)

\* the task queue runs a task
TaskRuns == \E throws \in BOOLEAN : runTask(throws)

\* the promise of a task that ran calls back
TaskCallsBack == \E f \in Fetches : taskResolved(f) \/ taskRejected(f)

LiveNext ==
    \/ \E params \in LiveEnqueued : Len(fetches) < LiveMaxFetch /\ add(params)
    \/ resetPending
    \/ PreloadSettles
    \/ NetworkSettles
    \/ TaskRuns
    \/ TaskCallsBack

LiveSpec ==
    /\ Init
    /\ [][LiveNext]_vars
    /\ WF_vars(NetworkSettles)
    /\ WF_vars(PreloadSettles)
    /\ WF_vars(TaskRuns)
    /\ WF_vars(TaskCallsBack)

(***************************************************************************)
(* subtractRelayQuery called on its own, on bounded query trees.           *)
(***************************************************************************)
\* getField finds a field by its storage key: sibling fields have distinct
\* storage keys
DistinctKeys(kids) ==
    \A i, j \in DOMAIN kids :
        i < j => getStorageKey(kids[i]) # getStorageKey(kids[j])

\* the children a node can have, drawn from the fields of S
KidSeqs(S) ==
    {kids \in UNION {[1..n -> S] : n \in 1..MaxWidth} : DistinctKeys(kids)}

\* scalar fields: data, a bookkeeping field, a polled alias of it
Leafs == {Scalar("name"), Requisite("id"), RefDependency("id", "pollId")}

\* the arguments of a range field
RangeArgs ==
    {Call(n, v) : n \in {"first", "last"}, v \in 1..MaxCount}
        \cup {Call("orderby", v) : v \in {"age", "name"}}

ArgSeqs == UNION {[1..n -> RangeArgs] : n \in 1..2}

\* scalar, plain and range fields
Fields ==
    Leafs
        \cup {Plain("actor", kids) : kids \in KidSeqs(Leafs)}
        \cup {Connection("friends", <<Call("first", n)>>, kids) :
                 n \in 1..MaxCount, kids \in KidSeqs(Leafs)}

Trees == {Root("user", 1, kids) : kids \in KidSeqs(Fields)}

\* two roots of one range field each, with the same children
RangePairs ==
    {<<Root("user", 1, <<Connection("friends", minArgs, kids)>>),
       Root("user", 1, <<Connection("friends", subArgs, kids)>>)>> :
        minArgs \in ArgSeqs, subArgs \in ArgSeqs, kids \in KidSeqs(Leafs)}

\* the (minuend, subtrahend) pairs subtractRelayQuery is called with
Operands == (Trees \X Trees) \cup RangePairs

SubtractInit ==
    /\ fetches = <<>>
    /\ pendingFetchMaps = << <<>> >>
    /\ preloadQueryMap = [id \in 1..MaxFetch |-> [state |-> "pending",
                                                   response |-> "undefined"]]
    /\ taskQueue = <<>>
    /\ networkCalls = <<>>
    /\ storeWrites = <<>>
    /\ resetLog = <<>>
    /\ successLog = <<>>
    /\ \E operands \in Operands :
          /\ minuend = operands[1]
          /\ subtrahend = operands[2]
    /\ difference = <<>>

\* difference = subtractRelayQuery(minuend, subtrahend)
subtract ==
    /\ difference = <<>>
    /\ difference' = <<subtractRelayQuery(minuend, subtrahend)>>
    /\ UNCHANGED <<trackerVars, minuend, subtrahend>>

SubtractNext == subtract

SubtractSpec == SubtractInit /\ [][SubtractNext]_vars

(***************************************************************************)
(* Vocabulary of the properties.                                           *)
(***************************************************************************)
\* b subtracted something from a's registered query: a._dependents holds b
DependsOn(b, a) ==
    \E i \in DOMAIN fetches[a].dependents : fetches[a].dependents[i] = b

Resolved(f) == fetches[f].resolvedDeferred.state = "resolved"
Rejected(f) == fetches[f].resolvedDeferred.state = "rejected"
Settled(f) == Resolved(f) \/ Rejected(f)

\* f's own fetch or payload write failed: _markAsRejected ran on f
OwnFailed(f) ==
    \E i \in DOMAIN fetches[f].errors : fetches[f].errors[i].of = f

\* f's own remainder has completed, successfully or not
OwnCompleted(f) == fetches[f].resolvedSubtractedQuery \/ OwnFailed(f)

HasErrorOf(f, a) ==
    \E i \in DOMAIN fetches[f].errors : fetches[f].errors[i].of = a

\* the network calls made for fetch f
CallsOf(calls, f) == {i \in DOMAIN calls : calls[i].fetch = f}

\* the scalar fields of a query, each with the path of fields leading to it
RECURSIVE Leaves(_, _)
Leaves(node, path) ==
    IF node.kind = "Field" /\ node.scalar
    THEN {[path |-> Append(path, getStorageKey(node)),
           requisite |-> node.requisite]}
    ELSE LET below == IF node.kind = "Fragment" THEN path
                      ELSE Append(path, getStorageKey(node))
         IN  UNION {Leaves(node.children[i], below) : i \in DOMAIN node.children}

LeafPaths(node) == {l.path : l \in Leaves(node, <<>>)}

\* the step creates a PendingFetch
IsAdd == Len(fetches') = Len(fetches) + 1

\* the registry entries whose root overlaps the root of `node`
Overlapping(map, node) ==
    {i \in DOMAIN map : containsRelayQueryRootCall(map[i].query, node)}

(***************************************************************************)
(* C1  Dedup under concurrency.                                            *)
(***************************************************************************)
\* What an add() of a non-preload query sends to the network: nothing but
\* one call for the new fetch; the full query when no pending entry overlaps
\* it; with one overlapping entry A, the part that subtracting A's registered
\* query leaves over, and no call when that part is null.
DedupCalls ==
    /\ ~IsAdd => networkCalls' = networkCalls
    /\ IsAdd =>
          LET b == Len(fetches')
              q == fetches'[b].query.node
              map == pendingFetchMaps[trackerMap]
              over == Overlapping(map, q)
          IN  /\ \A i \in DOMAIN networkCalls : networkCalls'[i] = networkCalls[i]
              /\ Len(networkCalls') <= Len(networkCalls) + 1
              /\ CallsOf(networkCalls', b) = DOMAIN networkCalls' \ DOMAIN networkCalls
              /\ fetches'[b].fetchMode # "PRELOAD" =>
                    /\ over = {} =>
                          /\ Len(networkCalls') = Len(networkCalls) + 1
                          /\ networkCalls'[Len(networkCalls')].query = q
                    /\ \A i \in over : over = {i} =>
                          LET rest == subtractRelayQuery(q, map[i].query) IN
                          IF rest = Null
                          THEN networkCalls' = networkCalls
                          ELSE networkCalls' =
                                  Append(networkCalls, [fetch |-> b, query |-> rest])

\* C1 (as amended): the calls of DedupCalls, and no field covered by a pending
\* overlapping entry is sent again, except the requisite fields, which every
\* remainder carries.
C1_DedupExceptRequisite ==
    [][/\ DedupCalls
       /\ IsAdd =>
             LET b == Len(fetches')
                 map == pendingFetchMaps[trackerMap]
             IN  fetches'[b].fetchMode # "PRELOAD" =>
                    \A c \in CallsOf(networkCalls', b),
                       i \in Overlapping(map, fetches'[b].query.node) :
                        \A l \in Leaves(networkCalls'[c].query, <<>>) :
                            l.path \in LeafPaths(map[i].query) => l.requisite
      ]_vars

\* C1 as claimed: no field covered by A's registered query is sent again.
C1_NoFieldSentTwice ==
    [][/\ DedupCalls
       /\ IsAdd =>
             LET b == Len(fetches')
                 map == pendingFetchMaps[trackerMap]
             IN  fetches'[b].fetchMode # "PRELOAD" =>
                    \A c \in CallsOf(networkCalls', b),
                       i \in Overlapping(map, fetches'[b].query.node) :
                        LeafPaths(networkCalls'[c].query)
                            \cap LeafPaths(map[i].query) = {}
      ]_vars

\* B was enqueued while A was pending, and only B's remainder went out.
C1_Witness ==
    \E a, b \in Fetches :
        /\ DependsOn(b, a)
        /\ fetches[a].fetchMode = "CLIENT" /\ fetches[b].fetchMode = "CLIENT"
        /\ \E c \in CallsOf(networkCalls, b) :
              /\ networkCalls[c].query # fetches[b].query.node
              /\ networkCalls[c].query =
                    subtractRelayQuery(fetches[b].query.node,
                                       fetches[a].subtractedQuery)
        /\ \E c \in CallsOf(networkCalls, a) :
              networkCalls[c].query = fetches[a].query.node

(***************************************************************************)
(* C2  A dependent's future and the completion of A and of its own         *)
(*     remainder.                                                          *)
(***************************************************************************)
\* C2 (as amended): when B depends on A, B's future does not resolve until
\* A's own remainder and B's own remainder have both resolved; it settles
\* before both have completed only by rejecting with a recorded error.
C2_ResolvesAfterBoth ==
    \A a, b \in Fetches :
        DependsOn(b, a) =>
            /\ Resolved(b) =>
                  /\ fetches[a].resolvedSubtractedQuery
                  /\ fetches[b].resolvedSubtractedQuery
            /\ Settled(b) /\ ~(OwnCompleted(a) /\ OwnCompleted(b)) =>
                  /\ Rejected(b)
                  /\ Len(fetches[b].errors) > 0

\* C2 as claimed: B's future neither resolves nor rejects before both A's
\* fetch and B's own remainder have completed.
C2_SettlesAfterBoth ==
    \A a, b \in Fetches :
        DependsOn(b, a) /\ Settled(b) => OwnCompleted(a) /\ OwnCompleted(b)

\* B fetched a remainder of its own, and resolved after A and itself.
C2_Witness ==
    \E a, b \in Fetches :
        /\ DependsOn(b, a)
        /\ fetches[b].subtractedQuery # Null
        /\ Resolved(b)

(***************************************************************************)
(* C3  Settle-once.                                                        *)
(***************************************************************************)
\* C3: a future is settled exactly when the fetch has an error or has its own
\* remainder resolved and no pending dependency; a rejected future carries
\* the first error of the list; once settled, a future never changes, while
\* the error list only grows.
C3_SettleOnce ==
    /\ [](\A f \in Fetches :
            /\ Settled(f) <=>
                  \/ Len(fetches[f].errors) > 0
                  \/ /\ fetches[f].resolvedSubtractedQuery
                     /\ DOMAIN fetches[f].pendingDependencyMap = {}
            /\ Rejected(f) =>
                  /\ Len(fetches[f].errors) > 0
                  /\ fetches[f].resolvedDeferred.reason = fetches[f].errors[1]
            /\ Resolved(f) => fetches[f].resolvedDeferred.reason = NoError)
    /\ [][\A f \in Fetches :
            /\ Settled(f) =>
                  fetches'[f].resolvedDeferred = fetches[f].resolvedDeferred
            /\ Len(fetches'[f].errors) >= Len(fetches[f].errors)
            /\ SubSeq(fetches'[f].errors, 1, Len(fetches[f].errors))
                  = fetches[f].errors
         ]_vars

\* a rejected future that kept its first error while a later one was appended
C3_Witness ==
    \E f \in Fetches :
        /\ Rejected(f)
        /\ Len(fetches[f].errors) >= 2
        /\ fetches[f].errors[2] # fetches[f].errors[1]
        /\ fetches[f].resolvedDeferred.reason = fetches[f].errors[1]

(***************************************************************************)
(* C4  Cascading failure.                                                  *)
(***************************************************************************)
\* C4 (as amended): when A's own fetch has failed and B depends on A, B's
\* future is rejected, whether or not B's own remainder has completed or
\* succeeded; A's error is in B's error list, and B's rejection reason is the
\* first error of that list: A's error, or an error B recorded before it.
C4_RejectsWithFirstError ==
    \A a, b \in Fetches :
        DependsOn(b, a) /\ OwnFailed(a) =>
            /\ Rejected(b)
            /\ HasErrorOf(b, a)
            /\ fetches[b].resolvedDeferred.reason = fetches[b].errors[1]
            /\ fetches[b].resolvedDeferred.reason.of # a =>
                  \E i, j \in DOMAIN fetches[b].errors :
                      /\ i < j
                      /\ fetches[b].errors[i].of # a
                      /\ fetches[b].errors[j].of = a

\* C4 as claimed: once B's own remainder has completed, B's future is
\* rejected with A's error.
C4_RejectsWithErrorOfA ==
    \A a, b \in Fetches :
        DependsOn(b, a) /\ OwnFailed(a) /\ OwnCompleted(b) =>
            /\ Rejected(b)
            /\ fetches[b].resolvedDeferred.reason.of = a

\* A failed, B's own remainder succeeded, B is rejected with A's error
C4_Witness ==
    \E a, b \in Fetches :
        /\ DependsOn(b, a) /\ OwnFailed(a)
        /\ fetches[b].subtractedQuery # Null
        /\ fetches[b].resolvedSubtractedQuery
        /\ Rejected(b)
        /\ fetches[b].resolvedDeferred.reason.of = a

(***************************************************************************)
(* C5  Transitive dependencies.                                            *)
(***************************************************************************)
\* C5 (as amended): in a chain C -> B -> A, C's future does not resolve until
\* C's own remainder and the own remainder of its direct dependency B have
\* resolved; A holds C back only when C also depends on A directly.
C5_DirectDependenciesOnly ==
    \A a, b, c \in Fetches :
        DependsOn(c, b) /\ DependsOn(b, a) /\ Resolved(c) =>
            /\ fetches[c].resolvedSubtractedQuery
            /\ fetches[b].resolvedSubtractedQuery
            /\ DependsOn(c, a) => fetches[a].resolvedSubtractedQuery

\* C5 as claimed: C's future does not settle while A's own remainder or A's
\* future is unsettled.
C5_TransitiveDependencies ==
    \A a, b, c \in Fetches :
        DependsOn(c, b) /\ DependsOn(b, a) /\ Settled(c) =>
            OwnCompleted(a) /\ Settled(a)

\* C resolved while A, a dependency of B only, is still being fetched
C5_Witness ==
    \E a, b, c \in Fetches :
        /\ DependsOn(c, b) /\ DependsOn(b, a) /\ ~DependsOn(c, a)
        /\ Resolved(c)
        /\ ~OwnCompleted(a)

(***************************************************************************)
(* More vocabulary: the store, the registry, outstanding operations.       *)
(***************************************************************************)
\* handleQueryPayload was called with f's subtracted query and forceIndex
Written(f) ==
    \E i \in DOMAIN storeWrites :
        storeWrites[i] = [fetch |-> f,
                          query |-> fetches[f].subtractedQuery,
                          forceIndex |-> fetches[f].forceIndex]

\* f has its entry in the registry it was enqueued into
InOwnMap(f) ==
    \E i \in DOMAIN pendingFetchMaps[fetches[f].pendingFetchMap] :
        pendingFetchMaps[fetches[f].pendingFetchMap][i] =
            [key |-> getID(fetches[f].query), fetch |-> f,
             query |-> fetches[f].subtractedQuery]

\* f has an entry in the tracker's registry
InRegistry(f) ==
    \E i \in DOMAIN pendingFetchMaps[Len(pendingFetchMaps)] :
        pendingFetchMaps[Len(pendingFetchMaps)][i].fetch = f

\* f's fetch, its queued write or the callback of the write is still to come
Outstanding(f) ==
    \/ fetches[f].fetchSubtractedQueryPromise = "pending"
    \/ /\ fetches[f].taskPromise = "pending"
       /\ \E i \in DOMAIN taskQueue : taskQueue[i].fetch = f
    \/ fetches[f].taskPromise \in {"resolved", "rejected"}

\* every dependent of f has been told that f's own remainder settled
Notified(f) ==
    \A d \in Fetches :
        DependsOn(d, f) =>
            getID(fetches[f].query) \notin DOMAIN fetches[d].pendingDependencyMap

OwnCompletedIn(fs, f) ==
    \/ fs[f].resolvedSubtractedQuery
    \/ \E i \in DOMAIN fs[f].errors : fs[f].errors[i].of = f

\* f was enqueued before the r-th resetPending()
EnqueuedBefore(f, r) == f <= resetLog[r]

(***************************************************************************)
(* C6  Reset does not cancel.                                              *)
(***************************************************************************)
\* C6: resetPending() leaves hasPendingQueries() false and touches no fetch
\* and no queued write; a fetch enqueued before a reset still runs to its
\* end: its operation stays outstanding until its own remainder completes, a
\* successful fetch of it is written to the store with its subtracted query
\* and forceIndex, and once its remainder has resolved its dependents have
\* been notified and its future is settled unless a dependency is pending.
C6_ResetDoesNotCancel ==
    /\ [][Len(pendingFetchMaps') > Len(pendingFetchMaps) =>
             /\ ~hasPendingQueries'
             /\ fetches' = fetches
             /\ taskQueue' = taskQueue]_vars
    /\ [](\A r \in DOMAIN resetLog, f \in Fetches :
            EnqueuedBefore(f, r) =>
                /\ ~OwnCompleted(f) => Outstanding(f)
                /\ fetches[f].taskPromise = "done" => OwnCompleted(f)
                /\ fetches[f].taskPromise = "resolved" => Written(f)
                /\ fetches[f].taskPromise = "rejected" =>
                      \/ fetches[f].taskError.kind = "shape"
                      \/ fetches[f].taskError.kind = "apply" /\ Written(f)
                /\ fetches[f].resolvedSubtractedQuery =>
                      /\ fetches[f].subtractedQuery # Null => Written(f)
                      /\ Notified(f)
                      /\ Settled(f)
                            \/ DOMAIN fetches[f].pendingDependencyMap # {})

\* A was enqueued before the reset and answered by the network after it (its
\* write follows the write of a fetch enqueued after the reset); it was
\* written, it resolved, and its dependent was notified.
C6_Witness ==
    \E r \in DOMAIN resetLog, a, b, d \in Fetches :
        /\ EnqueuedBefore(a, r) /\ ~EnqueuedBefore(b, r)
        /\ \E i, j \in DOMAIN storeWrites :
              /\ i < j
              /\ storeWrites[i].fetch = b
              /\ storeWrites[j].fetch = a
        /\ Written(a)
        /\ Resolved(a)
        /\ DependsOn(d, a) /\ Resolved(d)

(***************************************************************************)
(* C7  Reset isolates old work from new.                                   *)
(***************************************************************************)
\* the registry entries of the fetches enqueued since the last reset whose
\* own remainder has not completed, in the order they were enqueued
EntriesSinceReset ==
    LET ids == SelectSeq([g \in 1..Len(fetches) |-> g],
                         LAMBDA g : /\ g > resetLog[Len(resetLog)]
                                    /\ fetches[g].subtractedQuery # Null
                                    /\ ~OwnCompleted(g))
    IN  [i \in DOMAIN ids |->
            [key |-> getID(fetches[ids[i]].query), fetch |-> ids[i],
             query |-> fetches[ids[i]].subtractedQuery]]

\* C7: no fetch enqueued after a reset depends on one enqueued before it; a
\* non-preload query enqueued after a reset is subtracted against the
\* fetches enqueued since that reset only, so it is fetched in full when
\* all of those have completed; and when a fetch's own remainder completes,
\* its own entry is the only registry entry that goes away.
C7_ResetIsolates ==
    /\ [](\A r \in DOMAIN resetLog, a, b \in Fetches :
            EnqueuedBefore(a, r) /\ ~EnqueuedBefore(b, r) =>
                /\ ~DependsOn(b, a)
                /\ getID(fetches[a].query)
                      \notin DOMAIN fetches[b].pendingDependencyMap)
    /\ [][IsAdd /\ resetLog # <<>> =>
             LET b == Len(fetches') IN
                 /\ fetches'[b].fetchMode # "PRELOAD"
                 /\ \A g \in Fetches :
                       g > resetLog[Len(resetLog)] => OwnCompleted(g)
                 => /\ fetches'[b].subtractedQuery = fetches'[b].query.node
                    /\ networkCalls' =
                          Append(networkCalls,
                                 [fetch |-> b, query |-> fetches'[b].query.node])
        ]_vars
    /\ [][IsAdd /\ resetLog # <<>> =>
             LET b == Len(fetches') IN
                 fetches'[b].fetchMode # "PRELOAD" =>
                     fetches'[b].subtractedQuery =
                         _subtractPending(fetches'[b].query.node,
                                          EntriesSinceReset).query
        ]_vars
    /\ [][\A a \in Fetches :
             ~OwnCompletedIn(fetches, a) /\ OwnCompletedIn(fetches', a) =>
                 \A k \in DOMAIN pendingFetchMaps :
                     pendingFetchMaps'[k] =
                         SelectSeq(pendingFetchMaps[k], LAMBDA e : e.fetch # a)
        ]_vars

\* B, enqueued after the reset, overlaps A, enqueued before it and answered
\* after B's enqueue; B was fetched in full, and is still registered now
\* that A's own remainder has completed.
C7_Witness ==
    \E r \in DOMAIN resetLog, a, b \in Fetches :
        /\ EnqueuedBefore(a, r) /\ ~EnqueuedBefore(b, r)
        /\ fetches[a].fetchMode = "CLIENT" /\ fetches[b].fetchMode = "CLIENT"
        /\ containsRelayQueryRootCall(fetches[a].subtractedQuery,
                                      fetches[b].query.node)
        /\ subtractRelayQuery(fetches[b].query.node, fetches[a].subtractedQuery)
              # fetches[b].query.node
        /\ \E c \in CallsOf(networkCalls, b) :
              networkCalls[c].query = fetches[b].query.node
        /\ \E i, j \in DOMAIN storeWrites :
              i < j /\ storeWrites[i].fetch = b /\ storeWrites[j].fetch = a
        /\ OwnCompleted(a)
        /\ InRegistry(b) /\ InOwnMap(b)

C9_Preload ==
    \A f \in Fetches :
        fetches[f].fetchMode = "PRELOAD" =>
            LET key == preloadQueryMap[getID(fetches[f].query)] IN
            /\ fetches[f].subtractedQuery = fetches[f].query.node
            /\ DOMAIN fetches[f].pendingDependencyMap = {}
            /\ \A a \in Fetches : ~DependsOn(f, a)
            /\ CallsOf(networkCalls, f) = {}
            /\ ~OwnCompleted(f) => InOwnMap(f)
            /\ key.state = "pending" =>
                  /\ ~OwnCompleted(f)
                  /\ fetches[f].fetchSubtractedQueryPromise = "pending"
                  /\ fetches[f].taskPromise = "none"
            /\ fetches[f].resolvedSubtractedQuery =>
                  key.state = "resolved" /\ Written(f)
            /\ \A i \in DOMAIN fetches[f].errors :
                  fetches[f].errors[i].of = f =>
                      \/ /\ key.state = "rejected"
                         /\ fetches[f].errors[i].kind = "preload"
                      \/ /\ key.state = "resolved"
                         /\ fetches[f].errors[i].kind \in {"shape", "apply"}

\* a PRELOAD fetch enqueued while a query that covers it is pending, then
\* resolved by the preloader and written
C9_Witness ==
    \E a, f \in Fetches :
        /\ fetches[f].fetchMode = "PRELOAD"
        /\ a < f /\ fetches[a].fetchMode = "CLIENT"
        /\ fetches[a].pendingFetchMap = fetches[f].pendingFetchMap
        /\ ~OwnCompleted(a)
        /\ subtractRelayQuery(fetches[f].query.node, fetches[a].subtractedQuery)
              = Null
        /\ fetches[f].resolvedSubtractedQuery
        /\ Written(f)
        /\ Resolved(f)

(***************************************************************************)
(* C10  A failed dependency does not abort the dependent's own remainder.  *)
(***************************************************************************)
\* C10: when B depends on A and A's own fetch has failed, B is rejected, and
\* still B's own operation stays outstanding and B stays in the registry it
\* was enqueued into until B's own remainder completes; when B's remainder
\* resolves, B's payload has been written and B's dependents have been told
\* that B resolved, not that it failed.
C10_DependentNotAborted ==
    \A a, b \in Fetches :
        DependsOn(b, a) /\ OwnFailed(a) =>
            /\ Rejected(b)
            /\ ~OwnCompleted(b) => Outstanding(b) /\ InOwnMap(b)
            /\ fetches[b].resolvedSubtractedQuery =>
                  /\ fetches[b].subtractedQuery # Null => Written(b)
                  /\ Notified(b)
                  /\ \A d \in Fetches : DependsOn(d, b) => ~HasErrorOf(d, b)

\* B's fetch succeeded after B had been rejected with A's error; B's payload
\* was written and B's dependent D, which depends on B alone, resolved.
C10_Witness ==
    \E a, b, d \in Fetches :
        /\ DependsOn(b, a) /\ OwnFailed(a)
        /\ fetches[b].resolvedDeferred.reason.of = a
        /\ \E i \in DOMAIN successLog :
              successLog[i] = [fetch |-> b, rejected |-> TRUE]
        /\ fetches[b].resolvedSubtractedQuery
        /\ Written(b)
        /\ DependsOn(d, b) /\ ~DependsOn(d, a)
        /\ Resolved(d)

(***************************************************************************)
(* More vocabulary: own errors, edges.                                     *)
(***************************************************************************)
OwnFailedIn(fs, f) == \E i \in DOMAIN fs[f].errors : fs[f].errors[i].of = f

\* the errors of f's own fetch or payload write
OwnErrors(f) ==
    {fetches[f].errors[i] : i \in {j \in DOMAIN fetches[f].errors :
                                      fetches[f].errors[j].of = f}}

\* how many times the failure of a was recorded on d
ErrorCount(d, a) ==
    Cardinality({i \in DOMAIN fetches[d].errors : fetches[d].errors[i].of = a})

\* some handleQueryPayload call was made for f
HasWrite(f) == \E i \in DOMAIN storeWrites : storeWrites[i].fetch = f

\* f has an entry in some registry object
HasEntry(maps, f) ==
    \E k \in DOMAIN maps : \E i \in DOMAIN maps[k] : maps[k][i].fetch = f

(***************************************************************************)
(* C11  The three failure kinds are handled alike.                         *)
(***************************************************************************)
\* C11: whichever way f's own remainder fails (the fetch rejects, the
\* response is not an object, handleQueryPayload throws), in that step f's
\* entry leaves the registry and no other entry changes, the error is
\* appended to f's error list, f's future is rejected unless it was settled,
\* every dependent of f gets the error appended once, loses f from its
\* dependency map and is rejected, no other fetch gets an error, and nothing
\* is written to the store; a fetch fails at most once, and the store was
\* never written for a fetch whose response was not an object.
C11_FailuresHandledAlike ==
    /\ [][\A f \in Fetches :
            ~OwnFailedIn(fetches, f) /\ OwnFailedIn(fetches', f) =>
                LET error == fetches'[f].errors[Len(fetches'[f].errors)]
                    queryID == getID(fetches[f].query)
                IN  /\ error.of = f
                    /\ error.kind \in {"network", "preload", "shape", "apply"}
                    /\ fetches'[f].errors = Append(fetches[f].errors, error)
                    /\ ~fetches'[f].resolvedSubtractedQuery
                    /\ ~HasEntry(pendingFetchMaps', f)
                    /\ \A k \in DOMAIN pendingFetchMaps :
                          pendingFetchMaps'[k] =
                              SelectSeq(pendingFetchMaps[k],
                                        LAMBDA e : e.fetch # f)
                    /\ fetches'[f].resolvedDeferred =
                          IF DeferredIsSettled(fetches[f].resolvedDeferred)
                          THEN fetches[f].resolvedDeferred
                          ELSE [state |-> "rejected", reason |-> error]
                    /\ \A d \in Fetches \ {f} :
                          IF DependsOn(d, f)
                          THEN /\ fetches'[d].errors =
                                     Append(fetches[d].errors, error)
                               /\ fetches'[d].pendingDependencyMap =
                                     WithoutKey(fetches[d].pendingDependencyMap,
                                                queryID)
                               /\ fetches'[d].resolvedDeferred.state = "rejected"
                          ELSE fetches'[d] = fetches[d]
                    /\ storeWrites' = storeWrites
                    /\ taskQueue' = taskQueue
         ]_vars
    /\ [](\A f \in Fetches :
            /\ Cardinality(OwnErrors(f)) <= 1
            /\ ErrorCount(f, f) <= 1
            /\ \A e \in OwnErrors(f) :
                  /\ e.kind \in {"network", "preload", "shape"} => ~HasWrite(f)
                  /\ e.kind = "apply" => Written(f)
            /\ \A d \in Fetches :
                  DependsOn(d, f) /\ OwnFailed(f) => ErrorCount(d, f) = 1)

\* A's fetch was rejected, B's response was not an object, handleQueryPayload
\* threw for C; B heard of A's failure and C of B's, and B was not written
C11_Witness ==
    \E a, b, c \in Fetches :
        /\ Error("network", a) \in OwnErrors(a)
        /\ Error("shape", b) \in OwnErrors(b)
        /\ Error("apply", c) \in OwnErrors(c)
        /\ DependsOn(b, a) /\ ErrorCount(b, a) = 1
        /\ DependsOn(c, b) /\ ErrorCount(c, b) = 1
        /\ ~HasWrite(b) /\ Written(c)
        /\ ~HasEntry(pendingFetchMaps, a)
        /\ ~HasEntry(pendingFetchMaps, b)
        /\ ~HasEntry(pendingFetchMaps, c)

(***************************************************************************)
(* C15  Fully covered enqueue.                                             *)
(***************************************************************************)
\* the pending entries reduced f's query to null
FullyCovered(f) ==
    fetches[f].fetchMode # "PRELOAD" /\ fetches[f].subtractedQuery = Null

RootsMatch(q1, q2) ==
    /\ q1.schemaName = q2.schemaName
    /\ getIdentifyingArg(q1) = getIdentifyingArg(q2)

\* what is left of query q after the first i entries of the registry
RECURSIVE RemainderAfter(_, _, _)
RemainderAfter(q, map, i) ==
    IF i = 0 THEN q
    ELSE LET before == RemainderAfter(q, map, i - 1) IN
         IF before = Null THEN Null
         ELSE IF RootsMatch(map[i].query, before)
              THEN subtractRelayQuery(before, map[i].query)
              ELSE before

\* C16: an add() of a non-preload query q is left with what the registry
\* entries, taken in order, leave of q; the new fetch gets an edge onto an
\* entry's fetch (both ways: dependency map and dependents) exactly when
\* the remainder before that entry is not null, the roots match and the
\* subtraction returned something else than that remainder; when no entry's
\* root matches, q goes to the network unchanged and there is no edge.  A
\* fetch without dependencies has own errors only and its future settles
\* exactly when its own remainder completes.
C16_EdgesWhenRemoved ==
    /\ [][IsAdd =>
             LET b == Len(fetches')
                 q == fetches'[b].query.node
                 map == pendingFetchMaps[trackerMap]
                 deps == fetches'[b].pendingDependencyMap
             IN  fetches'[b].fetchMode # "PRELOAD" =>
                    /\ fetches'[b].subtractedQuery =
                          RemainderAfter(q, map, Len(map))
                    /\ DOMAIN deps \subseteq {map[i].key : i \in DOMAIN map}
                    /\ \A i \in DOMAIN map :
                          LET a == map[i].fetch
                              before == RemainderAfter(q, map, i - 1)
                              removed ==
                                  /\ before # Null
                                  /\ RootsMatch(map[i].query, q)
                                  /\ RemainderAfter(q, map, i) # before
                          IN  /\ map[i].key \in DOMAIN deps <=> removed
                              /\ removed => deps[map[i].key] = a
                              /\ fetches'[a].dependents =
                                    IF removed
                                    THEN Append(fetches[a].dependents, b)
                                    ELSE fetches[a].dependents
                    /\ (\A i \in DOMAIN map : ~RootsMatch(map[i].query, q)) =>
                          /\ fetches'[b].subtractedQuery = q
                          /\ networkCalls' =
                                Append(networkCalls, [fetch |-> b, query |-> q])
                          /\ DOMAIN deps = {}
                          /\ \A a \in Fetches : fetches'[a] = fetches[a]
         ]_vars
    /\ [](\A f \in Fetches :
            (\A a \in Fetches : ~DependsOn(f, a)) =>
                /\ DOMAIN fetches[f].pendingDependencyMap = {}
                /\ \A i \in DOMAIN fetches[f].errors : fetches[f].errors[i].of = f
                /\ Settled(f) <=> OwnCompleted(f))

\* B was enqueued while A, of the same root, was pending and took nothing
\* from A: no edge; C took something from A and from B: two edges
C16_Witness ==
    \E a, b, c \in Fetches :
        /\ a < b /\ b < c
        /\ fetches[a].pendingFetchMap = fetches[c].pendingFetchMap
        /\ ~OwnCompleted(a) /\ ~OwnCompleted(b)
        /\ RootsMatch(fetches[a].subtractedQuery, fetches[b].query.node)
        /\ fetches[b].fetchMode = "CLIENT"
        /\ ~DependsOn(b, a)
        /\ fetches[b].subtractedQuery = fetches[b].query.node
        /\ DependsOn(c, a) /\ DependsOn(c, b)

(***************************************************************************)
(* C17  Store write ordering.                                              *)
(***************************************************************************)
\* the fetches of the first n entries of the success history
CompletedFirst(n) == [i \in 1..n |-> successLog[i].fetch]

\* C17: the queued writes are the last completions, in the order of
\* completion; the payloads handed to the store are those of the
\* completions before them, in the order of completion, without the ones
\* whose response was not an object; a step hands at most one payload to the
\* store, that of the first task of the queue.
C17_WritesInCompletionOrder ==
    /\ [](LET ran == Len(successLog) - Len(taskQueue) IN
            /\ ran >= 0
            /\ \A i \in DOMAIN taskQueue :
                  taskQueue[i].fetch = successLog[ran + i].fetch
            /\ [i \in DOMAIN storeWrites |-> storeWrites[i].fetch] =
                  SelectSeq(CompletedFirst(ran),
                            LAMBDA f : fetches[f].taskError.kind # "shape")
            /\ \A i, j \in DOMAIN successLog :
                  i # j => successLog[i].fetch # successLog[j].fetch)
    /\ [][storeWrites' # storeWrites =>
             /\ taskQueue # <<>>
             /\ taskQueue' = Tail(taskQueue)
             /\ storeWrites' =
                   Append(storeWrites,
                          [fetch |-> Head(taskQueue).fetch,
                           query |-> fetches[Head(taskQueue).fetch].subtractedQuery,
                           forceIndex |-> fetches[Head(taskQueue).fetch].forceIndex])
         ]_vars

\* B was enqueued after A and answered before it: B's payload was applied
\* first
C17_Witness ==
    \E a, b \in Fetches :
        /\ a < b
        /\ fetches[a].pendingFetchMap = fetches[b].pendingFetchMap
        /\ \E i, j \in DOMAIN successLog :
              i < j /\ successLog[i].fetch = b /\ successLog[j].fetch = a
        /\ \E i, j \in DOMAIN storeWrites :
              i < j /\ storeWrites[i].fetch = b /\ storeWrites[j].fetch = a

(***************************************************************************)
(* C18  isResolvable().                                                    *)
(***************************************************************************)
\* f's own remainder has been fetched: nothing was left to fetch, or its
\* promise has resolved; the payload may not have been applied yet
Fetched(f) ==
    \/ fetches[f].subtractedQuery = Null
    \/ \E i \in DOMAIN successLog : successLog[i].fetch = f

\* C18 (as amended): a fetch is resolvable exactly when its own remainder has
\* been fetched (the network or preload promise resolved, the payload not
\* necessarily applied yet) and so has the remainder of every fetch still in
\* its dependency map; a fetch whose future has resolved is resolvable, and
\* a resolvable fetch stays resolvable.
C18_ResolvableWhenFetched ==
    /\ [](\A f \in Fetches :
            /\ isResolvable(fetches, f) <=>
                  /\ Fetched(f)
                  /\ \A id \in DOMAIN fetches[f].pendingDependencyMap :
                        Fetched(fetches[f].pendingDependencyMap[id])
            /\ Resolved(f) => isResolvable(fetches, f))
    /\ [][\A f \in Fetches :
            isResolvable(fetches, f) => isResolvable(fetches', f)]_vars

\* C18 as claimed: a fetch is resolvable exactly when its own remainder has
\* resolved and so has the own remainder of every fetch still in its
\* dependency map.
C18_ResolvableWhenResolved ==
    \A f \in Fetches :
        isResolvable(fetches, f) <=>
            /\ fetches[f].resolvedSubtractedQuery
            /\ \A id \in DOMAIN fetches[f].pendingDependencyMap :
                  fetches[fetches[f].pendingDependencyMap[id]]
                      .resolvedSubtractedQuery

\* B and its dependency A have been fetched, neither payload is applied yet:
\* B is resolvable
C18_Witness ==
    \E a, b \in Fetches :
        /\ DependsOn(b, a)
        /\ getID(fetches[a].query) \in DOMAIN fetches[b].pendingDependencyMap
        /\ fetches[b].subtractedQuery # Null
        /\ ~fetches[a].resolvedSubtractedQuery
        /\ ~fetches[b].resolvedSubtractedQuery
        /\ isResolvable(fetches, b)

(***************************************************************************)
(* C19  A resolved future is final.                                        *)
(***************************************************************************)
\* C19: a fetch whose future is resolved has no error, its own remainder
\* resolved and no pending dependency, and gets no error afterwards; a fetch
\* tells each dependent once that its own remainder resolved or failed,
\* never both: until then it is in the dependent's dependency map and none
\* of its errors is on the dependent, from then on it is out of the map with
\* its error on the dependent once if it failed, not at all if it resolved;
\* and it gets no dependent afterwards.
C19_ResolvedIsFinal ==
    /\ [](\A f \in Fetches :
            /\ Resolved(f) =>
                  /\ fetches[f].errors = <<>>
                  /\ fetches[f].resolvedSubtractedQuery
                  /\ DOMAIN fetches[f].pendingDependencyMap = {}
            /\ ~(fetches[f].resolvedSubtractedQuery /\ OwnFailed(f))
            /\ \A i \in DOMAIN fetches[f].errors :
                  fetches[f].errors[i].of # f =>
                      DependsOn(f, fetches[f].errors[i].of)
            /\ \A id \in DOMAIN fetches[f].pendingDependencyMap :
                  /\ DependsOn(f, fetches[f].pendingDependencyMap[id])
                  /\ getID(fetches[fetches[f].pendingDependencyMap[id]].query)
                        = id)
    /\ [](\A a, d \in Fetches :
            DependsOn(d, a) =>
                /\ Cardinality({i \in DOMAIN fetches[a].dependents :
                                   fetches[a].dependents[i] = d}) = 1
                /\ IF OwnCompleted(a)
                   THEN /\ getID(fetches[a].query)
                              \notin DOMAIN fetches[d].pendingDependencyMap
                        /\ ErrorCount(d, a) = IF OwnFailed(a) THEN 1 ELSE 0
                   ELSE /\ getID(fetches[a].query)
                              \in DOMAIN fetches[d].pendingDependencyMap
                        /\ ErrorCount(d, a) = 0)
    /\ [][\A f \in Fetches :
            /\ Resolved(f) => fetches'[f].errors = fetches[f].errors
            /\ Resolved(f) => fetches'[f].resolvedDeferred
                                 = fetches[f].resolvedDeferred
            /\ OwnCompletedIn(fetches, f) =>
                  fetches'[f].dependents = fetches[f].dependents
         ]_vars

\* D resolved after both its dependencies told it so; a fetch that failed
\* later left D as it was
C19_Witness ==
    \E a, b, d \in Fetches :
        /\ a # b
        /\ DependsOn(d, a) /\ DependsOn(d, b)
        /\ fetches[a].resolvedSubtractedQuery
        /\ fetches[b].resolvedSubtractedQuery
        /\ Resolved(d)
        /\ fetches[d].errors = <<>>

(***************************************************************************)
(* C20  No deadlock: every future settles, the registry empties.           *)
(***************************************************************************)
\* C20: a dependency edge points from a fetch to a fetch enqueued before
\* it; and when every fetch promise and preload key settles and the task
\* queue runs every task, every fetch that is enqueued has its future
\* settled in the end, and a registry that holds entries is empty again
\* later, whatever the order of enqueues, completions and resets.
C20_EveryFutureSettles ==
    /\ [](\A a, b \in Fetches : DependsOn(b, a) => a < b)
    /\ \A f \in 1..MaxFetch :
          (f \in Fetches) ~> (f \in Fetches /\ Settled(f))
    /\ hasPendingQueries ~> ~hasPendingQueries

\* all fetches were enqueued, around a reset and with a dependency; all
\* futures are settled, one of them resolved through its dependency, and no
\* registry holds an entry
C20_Witness ==
    /\ Len(fetches) = LiveMaxFetch
    /\ resetLog # <<>>
    /\ \A f \in Fetches : Settled(f)
    /\ \E a, b \in Fetches : DependsOn(b, a) /\ Resolved(b)
    /\ ~hasPendingQueries
    /\ \A f \in Fetches : ~HasEntry(pendingFetchMaps, f)

(***************************************************************************)
(* Vocabulary of the properties of subtractRelayQuery.                     *)
(***************************************************************************)
\* a field marked requisite occurs in the tree
RECURSIVE HasRequisite(_)
HasRequisite(node) ==
    \/ node.requisite
    \/ \E i \in DOMAIN node.children : HasRequisite(node.children[i])

\* the requisite scalar fields of a tree, each with the path of fields
\* leading to it, and whether isEmptyField holds of it
RECURSIVE RequisiteLeaves(_, _)
RequisiteLeaves(node, path) ==
    IF node.kind = "Field" /\ node.scalar
    THEN IF node.requisite
         THEN {[path |-> Append(path, getStorageKey(node)),
                empty |-> isEmptyField(node)]}
         ELSE {}
    ELSE LET below == IF node.kind = "Fragment" THEN path
                      ELSE Append(path, getStorageKey(node))
         IN  UNION {RequisiteLeaves(node.children[i], below) :
                       i \in DOMAIN node.children}

\* path p is the path q or the beginning of it
IsPrefix(p, q) == Len(p) <= Len(q) /\ SubSeq(q, 1, Len(p)) = p

\* the path of the node a leaf is a child of
ParentPath(path) == SubSeq(path, 1, Len(path) - 1)

\* the node at the path `parent` of the minuend survives in tree d
ParentKept(parent, d) ==
    \E k \in LeafPaths(d) : IsPrefix(parent, k)

\* subtractRelayQuery has returned
Subtracted == difference # <<>>

(***************************************************************************)
(* C12  Idempotent full coverage.                                          *)
(***************************************************************************)
\* C12: for every query tree Q of scalar, plain and range fields that holds
\* no requisite field, subtractRelayQuery(Q, Q) returns null.
C12_SubtractSelfIsNull ==
    Subtracted /\ minuend = subtrahend /\ ~HasRequisite(minuend) =>
        difference[1] = Null

\* a tree with a plain field and a range field, subtracted from itself
C12_Witness ==
    /\ Subtracted
    /\ minuend = subtrahend
    /\ ~HasRequisite(minuend)
    /\ \E i, j \in DOMAIN minuend.children :
          /\ minuend.children[i].connection
          /\ ~minuend.children[j].connection /\ ~minuend.children[j].scalar
    /\ difference[1] = Null

(***************************************************************************)
(* C13  Range monotonicity.                                                *)
(***************************************************************************)
\* the query is a root holding one range field
SingleRange(q) ==
    /\ q.kind = "Root"
    /\ Len(q.children) = 1
    /\ q.children[1].connection

\* the ranges match: the same arguments in the same positions, equal by
\* value but for a first or last count of the minuend, which is at most the
\* subtrahend's
ArgsMatch(minArgs, subArgs) ==
    /\ Len(minArgs) = Len(subArgs)
    /\ \A i \in DOMAIN minArgs :
          /\ minArgs[i].name = subArgs[i].name
          /\ \/ minArgs[i].value = subArgs[i].value
             \/ /\ minArgs[i].name \in {"first", "last"}
                /\ minArgs[i].value < subArgs[i].value

RequisiteKids(kids) == SelectSeq(kids, LAMBDA k : k.requisite)

\* minuend and subtrahend are one range field each, of the same schema name
\* and with the same children
SameRangeBothSides ==
    /\ Subtracted
    /\ SingleRange(minuend) /\ SingleRange(subtrahend)
    /\ canSubtractRoot(minuend, subtrahend)
    /\ minuend.children[1].schemaName = subtrahend.children[1].schemaName
    /\ minuend.children[1].children = subtrahend.children[1].children

\* C13 (as amended): a minuend range is matched by a subtrahend range whose
\* arguments are equal in every position but for first/last counts m <= n;
\* a matched range is covered but for its requisite children: the result is
\* null unless one of them is not empty (an aliased, polled field), and then
\* it is the range with its requisite children only.  An unmatched range
\* (m > n, or another argument differs) is retained whole, unless it holds
\* nothing but empty requisite fields, and then the result is null.
C13_RangeMonotone ==
    SameRangeBothSides =>
        LET range == minuend.children[1]
            kept == RequisiteKids(range.children)
        IN  IF ArgsMatch(range.calls, subtrahend.children[1].calls)
            THEN IF \A i \in DOMAIN kept : isEmptyField(kept[i])
                 THEN difference[1] = Null
                 ELSE difference[1] =
                         [minuend EXCEPT !.children =
                             <<[range EXCEPT !.children = kept]>>]
            ELSE IF isEmptyField(range)
                 THEN difference[1] = Null
                 ELSE difference[1] = minuend

\* C13 as claimed: a matched range is fully covered, an unmatched range is
\* retained whole.
C13_RangeCoveredOrRetained ==
    SameRangeBothSides =>
        IF ArgsMatch(minuend.children[1].calls, subtrahend.children[1].calls)
        THEN difference[1] = Null
        ELSE difference[1] = minuend

\* first: 1 of an ordered range is covered by first: 2 of the same order
C13_Witness ==
    /\ SameRangeBothSides
    /\ Len(minuend.children[1].calls) = 2
    /\ \E i, j \in 1..2 :
          /\ minuend.children[1].calls[i].name = "orderby"
          /\ minuend.children[1].calls[j].name = "first"
          /\ subtrahend.children[1].calls[j].name = "first"
          /\ minuend.children[1].calls[j].value
                < subtrahend.children[1].calls[j].value
    /\ \E i \in DOMAIN minuend.children[1].children :
          ~minuend.children[1].children[i].requisite
    /\ ArgsMatch(minuend.children[1].calls, subtrahend.children[1].calls)
    /\ difference[1] = Null

(***************************************************************************)
(* C14  Requisite retention.                                               *)
(***************************************************************************)
\* C14 (as amended): for roots that can be subtracted, a requisite field of
\* the minuend is present in the result whenever the node it is a child of
\* survives, whether or not the subtrahend holds the same field; a requisite
\* field that is not empty (an aliased, polled field) makes every node above
\* it survive, so it is always present; the result is null, and holds no
\* field at all, when nothing but empty requisite fields is left.
C14_RequisiteKeptWithParent ==
    Subtracted /\ canSubtractRoot(minuend, subtrahend) =>
        LET d == difference[1] IN
        /\ \A l \in RequisiteLeaves(minuend, <<>>) :
              /\ d # Null /\ ParentKept(ParentPath(l.path), d) =>
                    l.path \in LeafPaths(d)
              /\ ~l.empty => d # Null /\ l.path \in LeafPaths(d)
        /\ d # Null =>
              /\ RequisiteLeaves(d, <<>>) \subseteq RequisiteLeaves(minuend, <<>>)
              /\ \E k \in Leaves(d, <<>>) :
                    \/ ~k.requisite
                    \/ \E l \in RequisiteLeaves(d, <<>>) :
                          l.path = k.path /\ ~l.empty

\* C14 as claimed: a requisite field of the minuend is always present in the
\* result.
C14_RequisiteAlwaysPresent ==
    Subtracted /\ canSubtractRoot(minuend, subtrahend) =>
        \A l \in RequisiteLeaves(minuend, <<>>) :
            /\ difference[1] # Null
            /\ l.path \in LeafPaths(difference[1])

\* a requisite field whose storage key the subtrahend holds too is in the
\* result, while its sibling, covered by the subtrahend, is not
C14_Witness ==
    /\ Subtracted /\ canSubtractRoot(minuend, subtrahend)
    /\ difference[1] # Null
    /\ \E l \in RequisiteLeaves(minuend, <<>>) :
          /\ l.path \in LeafPaths(subtrahend)
          /\ l.path \in LeafPaths(difference[1])
          /\ \E k \in Leaves(minuend, <<>>) :
                /\ ~k.requisite
                /\ ParentPath(k.path) = ParentPath(l.path)
                /\ k.path \in LeafPaths(subtrahend)
                /\ k.path \notin LeafPaths(difference[1])

=============================================================================
